---- MODULE Spec2Model ----
(***************************************************************************)
(* The "isolate" install of one workspace of a monorepo: class Isolate     *)
(* (extends Install).  The model follows one run of the command: run(),    *)
(* init(), setSiblingWorkspaces(), and the hooks the generic installer     *)
(* calls: fetchRequestFromCwd, prepareRequests, preparePatterns and        *)
(* preparePatternsForLinking.                                              *)
(*                                                                         *)
(* A JavaScript string is a sequence of one-character strings, so that     *)
(* template literals are concatenations and normalizePattern really        *)
(* parses: "a@1.0.0" is <<"a","@","1",".","0",".","0">>.                    *)
(***************************************************************************)
EXTENDS Integers, Sequences, FiniteSets, TLC

VARIABLES
  pc,                  \* position of the run
  error,               \* the error that ended the run, NoError while none
  io,                  \* the I/O and collaborator calls made so far, in order
  warnings,            \* warnings printed so far
  config,              \* this.config: folders and the save-prefix/save-exact options
  flags,               \* this.flags
  disk,                \* manifests on disk and the workspaces the root resolves to
  siblingWorkspaces,   \* this.siblingWorkspaces: [defined, value]
  rawPatterns,         \* the installer's base pattern list (fetchRequestFromCwd)
  requests,            \* what prepareRequests handed to the resolver
  resolver,            \* this.resolver: [table: pattern -> package, replaced: calls]
  patterns,            \* the installer's top-level pattern list
  manifest,            \* the target's resolved package: [maps, reference]
  rootPatternsToOrigin,\* this.rootPatternsToOrigin, in insertion order
  flagToOrigin,        \* this.flagToOrigin
  call                 \* one call of getPatternVersion: [pattern, pkg, result, done]

vars == <<pc, error, io, warnings, config, flags, disk, siblingWorkspaces,
          rawPatterns, requests, resolver, patterns, manifest,
          rootPatternsToOrigin, flagToOrigin, call>>

\* ---------------------------------------------------------------- bounds

\* most workspaces a monorepo root resolves to
MaxWorkspaces == 3

\* largest digit of a version component in the versions drawn as inputs
MaxDigit == 3

\* ---------------------------------------------------------------- strings

DigitChars == <<"0", "1", "2", "3", "4", "5", "6", "7", "8", "9">>

IsDigit(c) == \E i \in 1..Len(DigitChars) : DigitChars[i] = c

DigitVal(c) == (CHOOSE i \in 1..Len(DigitChars) : DigitChars[i] = c) - 1

\* the version string major.minor.patch
V(major, minor, patch) ==
  <<DigitChars[major + 1], ".", DigitChars[minor + 1], ".", DigitChars[patch + 1]>>

\* the template literal `${name}@${version}`
At(name, version) == name \o <<"@">> \o version

\* s.indexOf(t) === 0
StartsWith(s, t) == Len(s) >= Len(t) /\ SubSeq(s, 1, Len(t)) = t

\* index of the first c in s, 0 when there is none
IndexOf(s, c) ==
  IF \E i \in 1..Len(s) : s[i] = c
  THEN CHOOSE i \in 1..Len(s) : s[i] = c /\ \A j \in 1..(i - 1) : s[j] # c
  ELSE 0

Range(s) == {s[i] : i \in 1..Len(s)}

Count(s, x) == Cardinality({i \in 1..Len(s) : s[i] = x})

\* ---------------------------------------------------------------- semver

\* a plain version: digit "." digit "." digit
IsPlainVersion(s) ==
  /\ Len(s) = 5
  /\ IsDigit(s[1]) /\ s[2] = "." /\ IsDigit(s[3]) /\ s[4] = "." /\ IsDigit(s[5])

\* semver.valid(s): a plain version, or one with a leading "v"
semverValid(s) ==
  \/ IsPlainVersion(s)
  \/ Len(s) = 6 /\ s[1] = "v" /\ IsPlainVersion(Tail(s))

\* the components of a plain version
Major(s) == DigitVal(s[1])
Minor(s) == DigitVal(s[3])
Patch(s) == DigitVal(s[5])

\* v >= w on plain versions
VersionGte(v, w) ==
  \/ Major(v) > Major(w)
  \/ Major(v) = Major(w) /\ Minor(v) > Minor(w)
  \/ Major(v) = Major(w) /\ Minor(v) = Minor(w) /\ Patch(v) >= Patch(w)

\* semver.satisfies(version, range) for the ranges "*", "", x.y.z, vx.y.z,
\* ^x.y.z and ~x.y.z; any other range (a tag, a path) is not a range: false
semverSatisfies(version, range) ==
  /\ IsPlainVersion(version)
  /\ \/ range = <<"*">>
     \/ range = <<>>
     \/ IsPlainVersion(range) /\ version = range
     \/ Len(range) = 6 /\ range[1] = "v" /\ IsPlainVersion(Tail(range))
          /\ version = Tail(range)
     \/ Len(range) = 6 /\ range[1] = "~" /\ IsPlainVersion(Tail(range))
          /\ Major(version) = Major(Tail(range))
          /\ Minor(version) = Minor(Tail(range))
          /\ Patch(version) >= Patch(Tail(range))
     \/ Len(range) = 6 /\ range[1] = "^" /\ IsPlainVersion(Tail(range))
          /\ LET r == Tail(range)
             IN  /\ VersionGte(version, r)
                 /\ Major(version) = Major(r)
                 /\ (Major(r) = 0 => Minor(version) = Minor(r))
                 /\ (Major(r) = 0 /\ Minor(r) = 0 => Patch(version) = Patch(r))

\* ---------------------------------------------------------------- patterns

\* normalizePattern(pattern): {name, range, hasVersion}; the first "@" after an
\* optional scope "@" splits the name from the range
normalizePattern(pattern) ==
  LET isScoped == Len(pattern) > 0 /\ pattern[1] = "@"
      body     == IF isScoped THEN Tail(pattern) ELSE pattern
      i        == IndexOf(body, "@")
      nm       == IF i = 0 THEN body ELSE SubSeq(body, 1, i - 1)
      rest     == IF i = 0 THEN <<>> ELSE SubSeq(body, i + 1, Len(body))
  IN  [name       |-> IF isScoped THEN <<"@">> \o nm ELSE nm,
       range      |-> IF i = 0 THEN <<"l", "a", "t", "e", "s", "t">>
                      ELSE IF rest = <<>> THEN <<"*">> ELSE rest,
       hasVersion |-> i # 0 /\ rest # <<>>]

\* getExoticResolver(pattern) is truthy: the pattern names a local path
\* ("/dir" or "./dir"), resolved by a non-registry resolver
getExoticResolver(pattern) ==
  \/ StartsWith(pattern, <<"/">>)
  \/ StartsWith(pattern, <<".", "/">>)

\* ---------------------------------------------------------------- getPatternVersion

\* the empty string stands for an unset `version` (both are falsy)
Undefined == <<>>

\* variant: a kept concrete version does not force the empty prefix
getPatternVersion_noForce(pattern, pkg) ==
  LET tilde        == flags.tilde
      configPrefix == config.savePrefix
      exact        == flags.exact \/ config.saveExact \/ configPrefix = <<>>
      np           == normalizePattern(pattern)
      version      ==
        IF getExoticResolver(pattern) THEN pattern
        ELSE IF /\ np.hasVersion
                /\ np.range # <<>>
                /\ (semverSatisfies(pkg.version, np.range) \/ getExoticResolver(np.range))
             THEN np.range
             ELSE Undefined
  IN  IF version = Undefined \/ semverValid(version)
      THEN LET prefix ==
                 IF tilde THEN <<"~">>
                 ELSE IF exact THEN <<>>
                 ELSE IF configPrefix # <<>> THEN configPrefix ELSE <<"^">>
           IN  prefix \o pkg.version
      ELSE version

\* variant: an empty save-prefix does not count as exact
getPatternVersion_noEmptyPrefix(pattern, pkg) ==
  LET tilde        == flags.tilde
      configPrefix == config.savePrefix
      exact        == flags.exact \/ config.saveExact
      np           == normalizePattern(pattern)
      version      ==
        IF getExoticResolver(pattern) THEN pattern
        ELSE IF /\ np.hasVersion
                /\ np.range # <<>>
                /\ (semverSatisfies(pkg.version, np.range) \/ getExoticResolver(np.range))
             THEN np.range
             ELSE Undefined
  IN  IF version = Undefined \/ semverValid(version)
      THEN LET prefix ==
                 IF tilde THEN <<"~">>
                 ELSE IF version # Undefined \/ exact THEN <<>>
                 ELSE IF configPrefix # <<>> THEN configPrefix ELSE <<"^">>
           IN  prefix \o pkg.version
      ELSE version

\* getPatternVersion(pattern, pkg): the version to record for a pattern
getPatternVersion(pattern, pkg) ==
  LET tilde        == flags.tilde
      configPrefix == config.savePrefix
      exact        == flags.exact \/ config.saveExact \/ configPrefix = <<>>
      np           == normalizePattern(pattern)
      version      ==
        IF getExoticResolver(pattern) THEN pattern
        ELSE IF /\ np.hasVersion
                /\ np.range # <<>>
                /\ (semverSatisfies(pkg.version, np.range) \/ getExoticResolver(np.range))
             THEN np.range
             ELSE Undefined
  IN  IF version = Undefined \/ semverValid(version)
      THEN LET prefix ==
                 IF tilde THEN <<"~">>
                 ELSE IF version # Undefined \/ exact THEN <<>>
                 ELSE IF configPrefix # <<>> THEN configPrefix ELSE <<"^">>
           IN  prefix \o pkg.version
      ELSE version

\* ---------------------------------------------------------------- values

NoError == [type |-> "none", at |-> "", msg |-> ""]

Err(type, at, msg) == [type |-> type, at |-> at, msg |-> msg]

\* folders of the run: the monorepo root and the folder of one workspace
RootFolder == "/repo"
WorkspaceFolder == "/repo/packages/w"

\* path.join(folder, filename)
pathJoin(folder, filename) == <<folder, filename>>

\* Object.keys(registries) with each registry's manifest filename
registries ==
  << [name |-> "npm", filename |-> "package.json"],
     [name |-> "yarn", filename |-> "package.json"] >>

\* package names
NamePool == << <<"a">>, <<"b">>, <<"c">>, <<"d">> >>

\* a package that is no workspace
OtherName == <<"x">>

\* the version of the i-th name of the pool
VersionOf(i) == V(((i - 1) % MaxDigit) + 1, 0, 0)

Workspace(i) == [name |-> NamePool[i], version |-> VersionOf(i)]

\* the versions the registry publishes of every package
RegistryVersions == {V(k, 0, 0) : k \in 1..MaxDigit}

DepTypes == {"dependencies", "devDependencies", "optionalDependencies"}

EmptyMap == [n \in {} |-> <<>>]

\* the workspace lists a root may resolve to: distinct workspaces, any order
WorkspaceLists ==
  LET N == IF MaxWorkspaces < Len(NamePool) THEN MaxWorkspaces ELSE Len(NamePool)
  IN  {[i \in 1..Len(s) |-> Workspace(s[i])] :
         s \in {t \in UNION {[1..n -> 1..N] : n \in 0..N} :
                  \A i, j \in DOMAIN t : i # j => t[i] # t[j]}}

\* the dependencies a workspace manifest may declare: [name, range, type]
DeclaredDeps ==
  { <<>>,
    << [name |-> NamePool[1], range |-> <<"^">> \o V(1, 0, 0), type |-> "dependencies"],
       [name |-> OtherName, range |-> <<"^">> \o V(1, 0, 0), type |-> "devDependencies"] >> }

NoCall == [pattern |-> <<>>, pkg |-> [name |-> <<>>, version |-> <<>>],
           result |-> <<>>, done |-> FALSE]

NoManifest == [maps |-> EmptyMap, reference |-> [present |-> FALSE, dependencies |-> <<>>]]

\* ---------------------------------------------------------------- Init

\* the configurations of a run
Configs ==
  { [cwd |-> c, workspaceRootFolder |-> w,
     lockfileFolder |-> IF w = "" THEN c ELSE w,
     savePrefix |-> p, saveExact |-> e] :
      c \in {RootFolder, WorkspaceFolder}, w \in {"", RootFolder},
      p \in {<<"^">>, <<>>}, e \in BOOLEAN }

\* the disks of a run: a manifest that is not on disk has no content
Disks(cfg) ==
  LET rootLoc      == pathJoin(cfg.lockfileFolder, "package.json")
      workspaceLoc == pathJoin(cfg.cwd, "package.json")
  IN  { [files |-> f, workspaces |-> ws, name |-> NamePool[n],
         version |-> VersionOf(n), deps |-> d] :
          f \in SUBSET {rootLoc, workspaceLoc},
          ws \in WorkspaceLists, n \in 1..2, d \in DeclaredDeps }

\* the state when the command starts, for given sets of inputs: the flags, the
\* default dependency type and the origins recorded before the run
InitWith(Flags, FlagOrigins, Origins) ==
  /\ pc = "run"
  /\ error = NoError
  /\ io = <<>>
  /\ warnings = <<>>
  /\ config \in {c \in Configs : c.cwd = WorkspaceFolder \/ c.workspaceRootFolder # ""}
  /\ flags \in Flags
  /\ disk \in {d \in Disks(config) :
                 /\ pathJoin(config.lockfileFolder, "package.json") \notin d.files
                      => d.workspaces = <<>>
                 /\ pathJoin(config.cwd, "package.json") \notin d.files
                      => d.name = NamePool[1] /\ d.deps = <<>>}
  /\ siblingWorkspaces = [defined |-> FALSE, value |-> <<>>]
  /\ rawPatterns = <<>>
  /\ requests = [base |-> <<>>, prepared |-> <<>>]
  /\ resolver = [table |-> EmptyMap, replaced |-> <<>>]
  /\ patterns = <<>>
  /\ manifest = NoManifest
  /\ rootPatternsToOrigin \in Origins
  /\ flagToOrigin \in FlagOrigins
  /\ call = NoCall

AllFlags ==
  [tilde : BOOLEAN, exact : BOOLEAN, workspaceRootIsCwd : {FALSE}, isolated : {FALSE}]

Init == InitWith(AllFlags, {"dependencies", "devDependencies"}, {<<>>})

\* ---------------------------------------------------------------- run, init

\* run(): read the lockfile, construct the Isolate (the constructor sets
\* flags.workspaceRootIsCwd and flags.isolated), then call init()
run ==
  /\ pc = "run"
  /\ io' = Append(io, "Lockfile.fromDirectory")
  /\ flags' = [flags EXCEPT !.workspaceRootIsCwd = (config.cwd = config.lockfileFolder),
                            !.isolated = TRUE]
  /\ pc' = "init"
  /\ UNCHANGED <<error, warnings, config, disk, siblingWorkspaces, rawPatterns,
                 requests, resolver, patterns, manifest, rootPatternsToOrigin,
                 flagToOrigin, call>>

\* variant: init without the root check
init_noRootCheck ==
  /\ pc = "init"
  /\ pc' = "setSiblingWorkspaces"
  /\ UNCHANGED <<error, io, warnings, config, flags, disk, siblingWorkspaces,
                 rawPatterns, requests, resolver, patterns, manifest,
                 rootPatternsToOrigin, flagToOrigin, call>>

\* init(): isolating the workspace root is refused before anything else
init ==
  /\ pc = "init"
  /\ IF config.workspaceRootFolder # "" /\ config.cwd = config.workspaceRootFolder
     THEN /\ error' = Err("MessageError", "init", "workspacesIsolateRootCheck")
          /\ pc' = "failed"
     ELSE /\ pc' = "setSiblingWorkspaces"
          /\ UNCHANGED error
  /\ UNCHANGED <<io, warnings, config, flags, disk, siblingWorkspaces, rawPatterns,
                 requests, resolver, patterns, manifest, rootPatternsToOrigin,
                 flagToOrigin, call>>

\* ---------------------------------------------------------------- setSiblingWorkspaces

\* fs.exists(loc)
fsExists(loc) == loc \in disk.files

\* the loop over the registries, from the i-th on: whether a registry has its
\* manifest at both locations, and the existence checks made
RECURSIVE scanRegistries(_)
scanRegistries(i) ==
  IF i > Len(registries) THEN [foundRegistry |-> FALSE, checks |-> <<>>]
  ELSE LET rootLoc      == pathJoin(config.lockfileFolder, registries[i].filename)
           workspaceLoc == pathJoin(config.cwd, registries[i].filename)
           checks       == IF fsExists(rootLoc) THEN <<"fs.exists", "fs.exists">>
                           ELSE <<"fs.exists">>
       IN  IF ~fsExists(rootLoc) \/ ~fsExists(workspaceLoc)
           THEN LET rest == scanRegistries(i + 1)
                IN  [foundRegistry |-> rest.foundRegistry,
                     checks |-> checks \o rest.checks]
           ELSE [foundRegistry |-> TRUE, checks |-> checks]

\* _getAllWorkspaceDeps(manifest): the names the manifest declares, type by type
getAllWorkspaceDeps(workspaceManifest) ==
  LET OfType(t) ==
        LET Is(d) == d.type = t
            sel   == SelectSeq(workspaceManifest.deps, Is)
        IN  [i \in 1..Len(sel) |-> sel[i].name]
  IN  OfType("dependencies") \o OfType("devDependencies") \o OfType("optionalDependencies")

\* variant (the superseded policy): the declared dependencies that are workspaces
discoverSiblings_declaredOnly(workspaceManifest, allWorkspaces) ==
  LET IsMember(w) == \E k \in 1..Len(allWorkspaces) : allWorkspaces[k].name = w
      declared    == SelectSeq(getAllWorkspaceDeps(workspaceManifest), IsMember)
      VersionFor(w) ==
        allWorkspaces[CHOOSE k \in 1..Len(allWorkspaces) : allWorkspaces[k].name = w].version
  IN  [i \in 1..Len(declared) |-> At(declared[i], VersionFor(declared[i]))]

\* the sibling list: every workspace but the current one, as name@version
discoverSiblings(workspaceManifest, allWorkspaces) ==
  LET currentWorkspace == workspaceManifest.name
      NotCurrent(w)    == w.name # currentWorkspace
      others           == SelectSeq(allWorkspaces, NotCurrent)
  IN  [i \in 1..Len(others) |-> At(others[i].name, others[i].version)]

setSiblingWorkspaces ==
  /\ pc = "setSiblingWorkspaces"
  /\ LET scan == scanRegistries(1)
     IN  IF ~scan.foundRegistry
         THEN /\ io' = io \o scan.checks
              /\ warnings' = Append(warnings, "no sibling workspaces")
              /\ UNCHANGED siblingWorkspaces
         ELSE /\ io' = io \o scan.checks
                      \o <<"readJson", "normalizeManifest", "readJson",
                           "normalizeManifest", "resolveWorkspaces">>
              /\ siblingWorkspaces' =
                   [defined |-> TRUE,
                    value   |-> discoverSiblings([name |-> disk.name, deps |-> disk.deps],
                                                 disk.workspaces)]
              /\ UNCHANGED warnings
  /\ pc' = "Install.init"
  /\ UNCHANGED <<error, config, flags, disk, rawPatterns, requests, resolver,
                 patterns, manifest, rootPatternsToOrigin, flagToOrigin, call>>

\* ---------------------------------------------------------------- requests

\* the name a pattern is excluded by
excludeName(pattern) == normalizePattern(pattern).name

\* fetchRequestFromCwd(excludePatterns), called by init of the generic installer
\* with the sibling list (an unset list is the default, no exclusion): one request
\* and one pattern per declared dependency whose name is not excluded, and the
\* dependency type of each pattern recorded in rootPatternsToOrigin
fetchRequestFromCwd ==
  /\ pc = "Install.init"
  /\ LET excludePatterns == IF siblingWorkspaces.defined THEN siblingWorkspaces.value
                            ELSE <<>>
         excludeNames    == {excludeName(excludePatterns[i]) :
                               i \in 1..Len(excludePatterns)}
         Kept(d)         == d.name \notin excludeNames
         kept            == SelectSeq(disk.deps, Kept)
     IN  /\ rawPatterns' = [i \in 1..Len(kept) |-> At(kept[i].name, kept[i].range)]
         /\ requests' = [base |-> [i \in 1..Len(kept) |->
                                     [pattern  |-> At(kept[i].name, kept[i].range),
                                      registry |-> "npm",
                                      optional |-> kept[i].type = "optionalDependencies"]],
                         prepared |-> <<>>]
         /\ rootPatternsToOrigin' =
              rootPatternsToOrigin \o [i \in 1..Len(kept) |->
                                         [pattern |-> At(kept[i].name, kept[i].range),
                                          origin  |-> kept[i].type]]
  /\ io' = Append(io, "Install.init")
  /\ pc' = "prepareRequests"
  /\ UNCHANGED <<error, warnings, config, flags, disk, siblingWorkspaces, resolver,
                 patterns, manifest, flagToOrigin, call>>

\* variant: the sibling requests come first
prepareRequestsOf_siblingsFirst(baseRequests) ==
  [i \in 1..Len(siblingWorkspaces.value) |->
     [pattern  |-> siblingWorkspaces.value[i],
      registry |-> "npm",
      optional |-> FALSE]] \o baseRequests

\* prepareRequests(requests): the base requests, then one per sibling
prepareRequestsOf(baseRequests) ==
  baseRequests \o [i \in 1..Len(siblingWorkspaces.value) |->
                     [pattern  |-> siblingWorkspaces.value[i],
                      registry |-> "npm",
                      optional |-> FALSE]]

\* the hook; iterating an unset sibling list is a TypeError
prepareRequests ==
  /\ pc = "prepareRequests"
  /\ IF ~siblingWorkspaces.defined
     THEN /\ error' = Err("TypeError", "prepareRequests", "siblingWorkspaces is not iterable")
          /\ pc' = "failed"
          /\ UNCHANGED requests
     ELSE /\ requests' = [requests EXCEPT !.prepared = prepareRequestsOf(requests.base)]
          /\ pc' = "resolver.init"
          /\ UNCHANGED error
  /\ UNCHANGED <<io, warnings, config, flags, disk, siblingWorkspaces, rawPatterns,
                 resolver, patterns, manifest, rootPatternsToOrigin, flagToOrigin, call>>

\* ---------------------------------------------------------------- resolver

\* the versions of the registry a range admits
Admitted(range) == {v \in RegistryVersions : semverSatisfies(v, range)}

\* the package a pattern resolves to: the highest admitted version of its name
resolvePattern(pattern) ==
  LET np == normalizePattern(pattern)
  IN  [name      |-> np.name,
       version   |-> CHOOSE v \in Admitted(np.range) :
                       \A w \in Admitted(np.range) : VersionGte(v, w),
       reference |-> [present |-> TRUE, registry |-> "npm"]]

\* the states the target's own resolved package may be in before folding
TargetManifests ==
  LET declared == [t \in {"dependencies"} |-> [n \in {NamePool[1]} |-> V(1, 0, 0)]]
      ranged   == [t \in {"devDependencies"} |->
                     [n \in {NamePool[1]} |-> <<"~">> \o V(1, 0, 0)]]
      listed   == <<At(NamePool[1], V(1, 0, 0))>>
  IN  { [maps |-> c[1], reference |-> [present |-> TRUE, dependencies |-> c[2]]] :
          c \in { <<EmptyMap, <<>>>>, <<EmptyMap, listed>>, <<declared, <<>>>>,
                  <<declared, listed>>, <<ranged, <<>>>> } }

\* resolver.init(requests): every requested pattern resolves to a package;
\* the target's own name@version may or may not be in the table
resolverInit ==
  /\ pc = "resolver.init"
  /\ \A i \in 1..Len(requests.prepared) :
       Admitted(normalizePattern(requests.prepared[i].pattern).range) # {}
  /\ LET requested  == {requests.prepared[i].pattern : i \in 1..Len(requests.prepared)}
         cwdPackage == At(disk.name, disk.version)
         table      == [p \in requested |-> resolvePattern(p)]
     IN  \/ /\ cwdPackage \notin requested
            /\ resolver' = [resolver EXCEPT !.table = table]
            /\ manifest' = NoManifest
         \/ \E m \in TargetManifests :
              /\ resolver' = [resolver EXCEPT !.table =
                                [p \in requested \cup {cwdPackage} |->
                                   IF p \in requested THEN table[p]
                                   ELSE [name      |-> disk.name,
                                         version   |-> disk.version,
                                         reference |-> [present |-> TRUE,
                                                        registry |-> "npm"]]]]
              /\ manifest' = m
  /\ io' = Append(io, "resolver.init")
  /\ pc' = "preparePatterns"
  /\ UNCHANGED <<error, warnings, config, flags, disk, siblingWorkspaces, rawPatterns,
                 requests, patterns, rootPatternsToOrigin, flagToOrigin, call>>

\* resolver.getResolvedPattern(pattern) is defined
hasResolvedPattern(res, pattern) == pattern \in DOMAIN res.table

\* resolver.getResolvedPattern(pattern), where defined
getResolvedPattern(res, pattern) == res.table[pattern]

\* resolver.replacePattern(pattern, newPattern): newPattern becomes another key
\* of the package, and a lookup by either pattern finds it afterwards
replacePattern(res, pattern, newPattern) ==
  [table    |-> [p \in DOMAIN res.table \cup {newPattern} |->
                   IF p = newPattern THEN res.table[pattern] ELSE res.table[p]],
   replaced |-> Append(res.replaced, <<pattern, newPattern>>)]

\* ---------------------------------------------------------------- preparePatterns

\* variant: the canonical pattern is pushed but never registered with the resolver
RECURSIVE preparePatternsLoop_noReplace(_, _)
preparePatternsLoop_noReplace(i, acc) ==
  IF i > Len(siblingWorkspaces.value) \/ acc.error # NoError THEN acc
  ELSE LET pattern == siblingWorkspaces.value[i]
       IN  IF ~hasResolvedPattern(acc.resolver, pattern)
           THEN [acc EXCEPT !.error = Err("TypeError", "preparePatterns",
                                          "pkg is undefined")]
           ELSE LET pkg        == getResolvedPattern(acc.resolver, pattern)
                    version    == getPatternVersion(pattern, pkg)
                    newPattern == At(pkg.name, version)
                IN  preparePatternsLoop_noReplace(i + 1,
                      [acc EXCEPT !.preparedPatterns =
                                     Append(acc.preparedPatterns, newPattern)])

\* the loop of preparePatterns from the i-th sibling on; acc is
\* [preparedPatterns, resolver, error]; reading a field of an unresolved package
\* is a TypeError that ends the loop
RECURSIVE preparePatternsLoop(_, _)
preparePatternsLoop(i, acc) ==
  IF i > Len(siblingWorkspaces.value) \/ acc.error # NoError THEN acc
  ELSE LET pattern == siblingWorkspaces.value[i]
       IN  IF ~hasResolvedPattern(acc.resolver, pattern)
           THEN [acc EXCEPT !.error = Err("TypeError", "preparePatterns",
                                          "pkg is undefined")]
           ELSE LET pkg        == getResolvedPattern(acc.resolver, pattern)
                    version    == getPatternVersion(pattern, pkg)
                    newPattern == At(pkg.name, version)
                    pushed     == Append(acc.preparedPatterns, newPattern)
                IN  preparePatternsLoop(i + 1,
                      IF newPattern = pattern
                      THEN [acc EXCEPT !.preparedPatterns = pushed]
                      ELSE [acc EXCEPT !.preparedPatterns = pushed,
                                       !.resolver = replacePattern(acc.resolver, pattern,
                                                                   newPattern)])

\* variant: the sibling patterns are appended as discovered
preparePatternsOf_provisional(patternsArg, res) ==
  [preparedPatterns |-> patternsArg \o siblingWorkspaces.value, resolver |-> res,
   error |-> NoError]

\* preparePatterns(patterns) on a resolver res: [preparedPatterns, resolver, error]
preparePatternsOf(patternsArg, res) ==
  preparePatternsLoop(1, [preparedPatterns |-> patternsArg, resolver |-> res,
                          error |-> NoError])

\* the hook, called with the installer's base patterns once resolution is done
preparePatterns ==
  /\ pc = "preparePatterns"
  /\ LET r == preparePatternsOf(rawPatterns, resolver)
     IN  /\ resolver' = r.resolver
         /\ IF r.error # NoError
            THEN /\ error' = r.error
                 /\ pc' = "failed"
                 /\ UNCHANGED patterns
            ELSE /\ patterns' = r.preparedPatterns
                 /\ pc' = "preparePatternsForLinking"
                 /\ UNCHANGED error
  /\ UNCHANGED <<io, warnings, config, flags, disk, siblingWorkspaces, rawPatterns,
                 requests, manifest, rootPatternsToOrigin, flagToOrigin, call>>

\* ---------------------------------------------------------------- preparePatternsForLinking

\* variant: a key matches when it starts with the name, whatever follows
originOfName_anyPrefix(pkgName) ==
  LET matching == {k \in 1..Len(rootPatternsToOrigin) :
                     StartsWith(rootPatternsToOrigin[k].pattern, pkgName)}
  IN  IF matching = {} THEN ""
      ELSE rootPatternsToOrigin[CHOOSE k \in matching : \A j \in matching : j <= k].origin

\* the reduce over Object.keys(rootPatternsToOrigin): the origin of the last key
\* that starts with pkgName@, "" (null) when no key does
originOfName(pkgName) ==
  LET matching == {k \in 1..Len(rootPatternsToOrigin) :
                     StartsWith(rootPatternsToOrigin[k].pattern, At(pkgName, <<>>))}
  IN  IF matching = {} THEN ""
      ELSE rootPatternsToOrigin[CHOOSE k \in matching : \A j \in matching : j <= k].origin

\* depType || this.flagToOrigin
dependencyTypeOf(pkgName) ==
  IF originOfName(pkgName) # "" THEN originOfName(pkgName) ELSE flagToOrigin

\* manifest[dependencyType] = manifest[dependencyType] || {}
withBucket(maps, dependencyType) ==
  IF dependencyType \in DOMAIN maps THEN maps
  ELSE [t \in DOMAIN maps \cup {dependencyType} |->
          IF t = dependencyType THEN EmptyMap ELSE maps[t]]

\* variant: the pattern is pushed even when the bucket already holds the version
foldSibling_alwaysPush(acc, pattern, dependencyType, pkgName, version) ==
  LET Other(p) == p # pattern
      filtered == SelectSeq(acc.newPatterns, Other)
  IN  IF ~(Len(acc.newPatterns) - Len(filtered) > 0)
      THEN [acc EXCEPT !.error = Err("InvariantViolation", "preparePatternsForLinking",
                                     "expect added pattern")]
      ELSE LET maps == withBucket(acc.manifest.maps, dependencyType)
               kept == [acc EXCEPT !.newPatterns = filtered, !.manifest.maps = maps]
           IN  IF ~acc.manifest.reference.present
               THEN [kept EXCEPT !.error =
                       Err("InvariantViolation", "preparePatternsForLinking",
                           "manifest._reference should not be null")]
               ELSE [kept EXCEPT !.manifest.reference.dependencies =
                                    Append(acc.manifest.reference.dependencies, pattern)]

\* variant: the bucket is created before the pattern is looked for
foldSibling_bucketFirst(acc, pattern, dependencyType, pkgName, version) ==
  LET Other(p) == p # pattern
      filtered == SelectSeq(acc.newPatterns, Other)
      maps     == withBucket(acc.manifest.maps, dependencyType)
  IN  IF ~(Len(acc.newPatterns) - Len(filtered) > 0)
      THEN [acc EXCEPT !.manifest.maps = maps,
                       !.error = Err("InvariantViolation", "preparePatternsForLinking",
                                     "expect added pattern")]
      ELSE LET kept == [acc EXCEPT !.newPatterns = filtered, !.manifest.maps = maps]
           IN  IF pkgName \in DOMAIN maps[dependencyType]
                  /\ maps[dependencyType][pkgName] = version
               THEN kept
               ELSE IF ~acc.manifest.reference.present
               THEN [kept EXCEPT !.error =
                       Err("InvariantViolation", "preparePatternsForLinking",
                           "manifest._reference should not be null")]
               ELSE [kept EXCEPT !.manifest.reference.dependencies =
                                    Append(acc.manifest.reference.dependencies, pattern)]

\* the callback of preparePatternsForLinking for one sibling; acc is
\* [newPatterns, manifest, error]
foldSibling(acc, pattern, dependencyType, pkgName, version) ==
  LET Other(p) == p # pattern
      filtered == SelectSeq(acc.newPatterns, Other)
  IN  IF ~(Len(acc.newPatterns) - Len(filtered) > 0)
      THEN [acc EXCEPT !.error = Err("InvariantViolation", "preparePatternsForLinking",
                                     "expect added pattern")]
      ELSE LET maps == withBucket(acc.manifest.maps, dependencyType)
               kept == [acc EXCEPT !.newPatterns = filtered, !.manifest.maps = maps]
           IN  IF pkgName \in DOMAIN maps[dependencyType]
                  /\ maps[dependencyType][pkgName] = version
               THEN kept
               ELSE IF ~acc.manifest.reference.present
               THEN [kept EXCEPT !.error =
                       Err("InvariantViolation", "preparePatternsForLinking",
                           "manifest._reference should not be null")]
               ELSE [kept EXCEPT !.manifest.reference.dependencies =
                                    Append(acc.manifest.reference.dependencies, pattern)]

\* _iterateAddedPackages(f) from the i-th sibling on, f being foldSibling; a
\* failed assertion ends the loop and leaves what earlier siblings changed; every
\* resolver.getResolvedPattern call is recorded in acc.lookups
RECURSIVE iterateAddedPackages(_, _)
iterateAddedPackages(i, acc) ==
  IF i > Len(siblingWorkspaces.value) \/ acc.error # NoError THEN acc
  ELSE LET pattern == siblingWorkspaces.value[i]
           looked  == [acc EXCEPT !.lookups = Append(acc.lookups,
                                                     "resolver.getResolvedPattern")]
       IN  IF ~hasResolvedPattern(resolver, pattern)
           THEN [looked EXCEPT !.error = Err("InvariantViolation", "_iterateAddedPackages",
                                             "missing package")]
           ELSE LET pkg     == getResolvedPattern(resolver, pattern)
                    version == getPatternVersion(pattern, pkg)
                IN  IF ~pkg.reference.present
                    THEN [looked EXCEPT !.error =
                            Err("InvariantViolation", "_iterateAddedPackages",
                                "expected package reference")]
                    ELSE iterateAddedPackages(i + 1,
                           foldSibling(looked, pattern, dependencyTypeOf(pkg.name),
                                       pkg.name, version))

\* variant: the root target is folded like any other
preparePatternsForLinkingOf_noRootCheck(patternsArg, cwdManifest, cwdIsRoot) ==
  LET cwdPackage == At(cwdManifest.name, cwdManifest.version)
      asGiven    == [newPatterns |-> patternsArg, manifest |-> manifest,
                     error |-> NoError, warned |-> FALSE, lookups |-> <<>>]
      strict     == [asGiven EXCEPT !.lookups = <<"resolver.getStrictResolvedPattern">>]
  IN  IF ~hasResolvedPattern(resolver, cwdPackage)
      THEN [strict EXCEPT !.warned = TRUE]
      ELSE iterateAddedPackages(1, strict)

\* variant: the failed strict lookup is not caught
preparePatternsForLinkingOf_noCatch(patternsArg, cwdManifest, cwdIsRoot) ==
  LET cwdPackage == At(cwdManifest.name, cwdManifest.version)
      asGiven    == [newPatterns |-> patternsArg, manifest |-> manifest,
                     error |-> NoError, warned |-> FALSE, lookups |-> <<>>]
      strict     == [asGiven EXCEPT !.lookups = <<"resolver.getStrictResolvedPattern">>]
  IN  IF cwdIsRoot THEN asGiven
      ELSE IF ~hasResolvedPattern(resolver, cwdPackage)
      THEN [strict EXCEPT !.error = Err("MessageError", "preparePatternsForLinking",
                                        "couldn't find a package")]
      ELSE iterateAddedPackages(1, strict)

\* preparePatternsForLinking(patterns, cwdManifest, cwdIsRoot):
\* [newPatterns, manifest, error, warned, lookups]
preparePatternsForLinkingOf(patternsArg, cwdManifest, cwdIsRoot) ==
  LET cwdPackage == At(cwdManifest.name, cwdManifest.version)
      asGiven    == [newPatterns |-> patternsArg, manifest |-> manifest,
                     error |-> NoError, warned |-> FALSE, lookups |-> <<>>]
      strict     == [asGiven EXCEPT !.lookups = <<"resolver.getStrictResolvedPattern">>]
  IN  IF cwdIsRoot THEN asGiven
      ELSE IF ~hasResolvedPattern(resolver, cwdPackage)
      THEN [strict EXCEPT !.warned = TRUE]
      ELSE iterateAddedPackages(1, strict)

\* the hook, called by the link step with the top-level patterns, the manifest
\* of the current folder and flags.workspaceRootIsCwd
preparePatternsForLinking ==
  /\ pc = "preparePatternsForLinking"
  /\ LET r == preparePatternsForLinkingOf(patterns,
                [name |-> disk.name, version |-> disk.version],
                flags.workspaceRootIsCwd)
     IN  /\ manifest' = r.manifest
         /\ io' = io \o r.lookups
         /\ warnings' = IF r.warned THEN Append(warnings, "unknownPackage") ELSE warnings
         /\ IF r.error # NoError
            THEN /\ error' = r.error
                 /\ pc' = "failed"
                 /\ UNCHANGED patterns
            ELSE /\ patterns' = r.newPatterns
                 /\ pc' = "linked"
                 /\ UNCHANGED error
  /\ UNCHANGED <<config, flags, disk, siblingWorkspaces, rawPatterns, requests,
                 resolver, rootPatternsToOrigin, flagToOrigin, call>>

\* ---------------------------------------------------------------- the run

Next ==
  \/ run
  \/ init
  \/ setSiblingWorkspaces
  \/ fetchRequestFromCwd
  \/ prepareRequests
  \/ resolverInit
  \/ preparePatterns
  \/ preparePatternsForLinking

Spec == Init /\ [][Next]_vars

\* ---------------------------------------------------------------- one call of getPatternVersion

\* the patterns and packages a call is made with
PatternInputs ==
  LET n == NamePool[1]
  IN  { n, At(n, <<>>), At(n, <<"*">>), At(n, <<"l", "a", "t", "e", "s", "t">>),
        <<"/", "x">>, <<".", "/", "x">>, At(n, <<"/", "x">>) }
      \cup {At(n, V(k, 0, 0)) : k \in 1..2}
      \cup {At(n, <<"v">> \o V(1, 0, 0)), At(n, V(1, 1, 0))}
      \cup {At(n, <<"^">> \o V(1, 0, 0)), At(n, <<"~">> \o V(1, 0, 0)),
            At(n, <<"^">> \o V(0, 1, 0))}

PackageVersions == {V(i, j, k) : i, j, k \in 0..MaxDigit}

InitVersion ==
  /\ pc = "getPatternVersion"
  /\ error = NoError
  /\ io = <<>>
  /\ warnings = <<>>
  /\ config \in { [cwd |-> WorkspaceFolder, workspaceRootFolder |-> RootFolder,
                   lockfileFolder |-> RootFolder, savePrefix |-> p, saveExact |-> e] :
                    p \in {<<"^">>, <<"~">>, <<>>}, e \in BOOLEAN }
  /\ flags \in [tilde : BOOLEAN, exact : BOOLEAN, workspaceRootIsCwd : {FALSE},
                isolated : {TRUE}]
  /\ disk = [files |-> {}, workspaces |-> <<>>, name |-> NamePool[1],
             version |-> VersionOf(1), deps |-> <<>>]
  /\ siblingWorkspaces = [defined |-> FALSE, value |-> <<>>]
  /\ rawPatterns = <<>>
  /\ requests = [base |-> <<>>, prepared |-> <<>>]
  /\ resolver = [table |-> EmptyMap, replaced |-> <<>>]
  /\ patterns = <<>>
  /\ manifest = NoManifest
  /\ rootPatternsToOrigin = <<>>
  /\ flagToOrigin = "dependencies"
  /\ call \in { [pattern |-> p, pkg |-> [name |-> NamePool[1], version |-> v],
                 result |-> <<>>, done |-> FALSE] :
                  p \in PatternInputs, v \in PackageVersions }

callGetPatternVersion ==
  /\ pc = "getPatternVersion"
  /\ call' = [call EXCEPT !.result = getPatternVersion(call.pattern, call.pkg),
                          !.done = TRUE]
  /\ pc' = "returned"
  /\ UNCHANGED <<error, io, warnings, config, flags, disk, siblingWorkspaces,
                 rawPatterns, requests, resolver, patterns, manifest,
                 rootPatternsToOrigin, flagToOrigin>>

NextVersion == callGetPatternVersion

SpecVersion == InitVersion /\ [][NextVersion]_vars

\* ---------------------------------------------------------------- one call of preparePatternsForLinking

\* the workspace lists of a call: the target first, then its siblings
FoldWorkspaceLists ==
  {ws \in WorkspaceLists : Len(ws) >= 1 /\ ws[1] = Workspace(2)}

\* the elements of s at the indices I, in the order of s
Pick(s, I) ==
  [k \in 1..Cardinality(I) |-> s[CHOOSE i \in I : Cardinality({j \in I : j <= i}) = k]]

\* the origins recorded before a call: the base pattern's, then keys recorded
\* for the first sibling name, for a longer name, and twice for the same name
OriginInputs ==
  LET base == [pattern |-> At(OtherName, <<"^">> \o V(1, 0, 0)),
               origin |-> "devDependencies"]
      n    == NamePool[1]
  IN  { <<base>>,
        <<[pattern |-> At(n, <<"^">> \o V(1, 0, 0)), origin |-> "optionalDependencies"],
          base>>,
        <<[pattern |-> At(n \o NamePool[2], <<"^">> \o V(1, 0, 0)),
           origin |-> "optionalDependencies"], base>>,
        <<[pattern |-> At(n, <<"^">> \o V(1, 0, 0)), origin |-> "optionalDependencies"],
          base,
          [pattern |-> At(n, <<"~">> \o V(1, 0, 0)), origin |-> "dependencies"]>> }

\* the state when the link step calls the hook: preparePatterns has run on the
\* resolved requests; the patterns argument is the base patterns followed by any
\* of the sibling patterns, in sibling order, or what preparePatterns returned
InitFold ==
  /\ pc = "preparePatternsForLinking"
  /\ error = NoError
  /\ io = <<>>
  /\ warnings = <<>>
  /\ config \in { [cwd |-> WorkspaceFolder, workspaceRootFolder |-> w,
                   lockfileFolder |-> IF w = "" THEN WorkspaceFolder ELSE w,
                   savePrefix |-> <<"^">>, saveExact |-> FALSE] :
                    w \in {"", RootFolder} }
  /\ flags \in [tilde : BOOLEAN, exact : {FALSE},
                workspaceRootIsCwd : {config.cwd = config.lockfileFolder},
                isolated : {TRUE}]
  /\ disk \in { [files |-> {pathJoin(config.lockfileFolder, "package.json"),
                            pathJoin(config.cwd, "package.json")},
                 workspaces |-> ws, name |-> NamePool[2], version |-> VersionOf(2),
                 deps |-> <<[name |-> OtherName, range |-> <<"^">> \o V(1, 0, 0),
                             type |-> "devDependencies"]>>] :
                  ws \in FoldWorkspaceLists }
  /\ siblingWorkspaces =
       [defined |-> TRUE,
        value |-> discoverSiblings([name |-> disk.name, version |-> disk.version,
                                    deps |-> disk.deps], disk.workspaces)]
  /\ rawPatterns = <<At(OtherName, <<"^">> \o V(1, 0, 0))>>
  /\ requests = [base |-> <<[pattern |-> rawPatterns[1], registry |-> "npm",
                             optional |-> FALSE]>>,
                 prepared |-> prepareRequestsOf(<<[pattern |-> rawPatterns[1],
                                                   registry |-> "npm",
                                                   optional |-> FALSE]>>)]
  /\ manifest \in TargetManifests \cup {NoManifest}
  /\ LET requested  == {requests.prepared[i].pattern : i \in 1..Len(requests.prepared)}
         cwdPackage == At(disk.name, disk.version)
         own        == IF manifest = NoManifest THEN {} ELSE {cwdPackage}
         table      == [p \in requested \cup own |->
                          IF p \in requested THEN resolvePattern(p)
                          ELSE [name |-> disk.name, version |-> disk.version,
                                reference |-> [present |-> TRUE, registry |-> "npm"]]]
         prepared   == preparePatternsOf(rawPatterns,
                                         [table |-> table, replaced |-> <<>>])
     IN  /\ resolver = prepared.resolver
         /\ patterns \in {prepared.preparedPatterns}
                           \cup {rawPatterns \o Pick(siblingWorkspaces.value, I) :
                                   I \in SUBSET (1..Len(siblingWorkspaces.value))}
  /\ rootPatternsToOrigin \in OriginInputs
  /\ flagToOrigin \in {"dependencies", "devDependencies"}
  /\ call = NoCall

NextFold == preparePatternsForLinking

SpecFold == InitFold /\ [][NextFold]_vars

\* ---------------------------------------------------------------- two calls of preparePatterns

\* the state when preparePatterns is called: the requests of prepareRequests are
\* resolved, under every setting of the flags and of the configured prefix
InitPrepare ==
  /\ pc = "preparePatterns"
  /\ error = NoError
  /\ io = <<>>
  /\ warnings = <<>>
  /\ config \in { [cwd |-> WorkspaceFolder, workspaceRootFolder |-> RootFolder,
                   lockfileFolder |-> RootFolder, savePrefix |-> p, saveExact |-> e] :
                    p \in {<<"^">>, <<"~">>, <<>>}, e \in BOOLEAN }
  /\ flags \in [tilde : BOOLEAN, exact : BOOLEAN, workspaceRootIsCwd : {FALSE},
                isolated : {TRUE}]
  /\ disk \in { [files |-> {pathJoin(config.lockfileFolder, "package.json"),
                            pathJoin(config.cwd, "package.json")},
                 workspaces |-> ws, name |-> NamePool[2], version |-> VersionOf(2),
                 deps |-> <<[name |-> OtherName, range |-> <<"^">> \o V(1, 0, 0),
                             type |-> "devDependencies"]>>] :
                  ws \in FoldWorkspaceLists }
  /\ siblingWorkspaces =
       [defined |-> TRUE,
        value |-> discoverSiblings([name |-> disk.name, version |-> disk.version,
                                    deps |-> disk.deps], disk.workspaces)]
  /\ rawPatterns = <<At(OtherName, <<"^">> \o V(1, 0, 0))>>
  /\ requests = [base |-> <<[pattern |-> rawPatterns[1], registry |-> "npm",
                             optional |-> FALSE]>>,
                 prepared |-> prepareRequestsOf(<<[pattern |-> rawPatterns[1],
                                                   registry |-> "npm",
                                                   optional |-> FALSE]>>)]
  /\ resolver = [table |-> [p \in {requests.prepared[i].pattern :
                                     i \in 1..Len(requests.prepared)} |->
                              resolvePattern(p)],
                 replaced |-> <<>>]
  /\ patterns = <<>>
  /\ manifest = NoManifest
  /\ rootPatternsToOrigin = <<[pattern |-> rawPatterns[1], origin |-> "devDependencies"]>>
  /\ flagToOrigin = "dependencies"
  /\ call = NoCall

\* preparePatterns called once more, with the patterns the first call returned
preparePatternsAgain ==
  /\ pc = "preparePatternsForLinking"
  /\ LET r == preparePatternsOf(patterns, resolver)
     IN  /\ resolver' = r.resolver
         /\ IF r.error # NoError
            THEN /\ error' = r.error
                 /\ pc' = "failed"
                 /\ UNCHANGED patterns
            ELSE /\ patterns' = r.preparedPatterns
                 /\ pc' = "preparedAgain"
                 /\ UNCHANGED error
  /\ UNCHANGED <<io, warnings, config, flags, disk, siblingWorkspaces, rawPatterns,
                 requests, manifest, rootPatternsToOrigin, flagToOrigin, call>>

NextPrepare ==
  \/ preparePatterns
  \/ preparePatternsAgain

SpecPrepare == InitPrepare /\ [][NextPrepare]_vars

\* ---------------------------------------------------------------- properties

\* the install target is not the monorepo root (cwdIsRoot is false)
NonRootTarget == config.cwd # config.lockfileFolder

\* the target's own name@version is in the resolver's table
TargetResolved == hasResolvedPattern(resolver, At(disk.name, disk.version))

\* preparePatternsForLinking has run, to its end or to a failed assertion
FoldActed ==
  \/ pc = "linked"
  \/ pc = "failed" /\ error.at \in {"preparePatternsForLinking", "_iterateAddedPackages"}

\* folding ran to its end on a non-root target whose own package resolves
FoldCompleted == pc = "linked" /\ NonRootTarget /\ TargetResolved

\* the canonical pattern of a sibling pattern
CanonicalOf(pattern) ==
  At(getResolvedPattern(resolver, pattern).name,
     getPatternVersion(pattern, getResolvedPattern(resolver, pattern)))

Siblings == siblingWorkspaces.value

DefaultFlags ==
  /\ ~flags.tilde /\ ~flags.exact
  /\ config.savePrefix = <<"^">> /\ ~config.saveExact

\* workspaces a@1.0.0, b@2.0.0, c@3.0.0 and the target b
ScenarioABC ==
  /\ disk.workspaces = <<Workspace(1), Workspace(2), Workspace(3)>>
  /\ disk.name = NamePool[2]
  /\ Workspace(1) = [name |-> <<"a">>, version |-> <<"1", ".", "0", ".", "0">>]
  /\ Workspace(3) = [name |-> <<"c">>, version |-> <<"3", ".", "0", ".", "0">>]

\* C1: after preparePatterns then preparePatternsForLinking on a non-root target
\* whose own package resolves, whatever the flags, the call returns, the returned
\* list is exactly the base pattern list, and no sibling pattern is in it, in
\* its provisional or its canonical form
C1_FoldReturnsBasePatterns ==
  (FoldActed /\ NonRootTarget /\ TargetResolved) =>
    /\ pc = "linked"
    /\ patterns = rawPatterns
    /\ \A i \in 1..Len(Siblings) :
         /\ Siblings[i] \notin Range(patterns)
         /\ CanonicalOf(Siblings[i]) \notin Range(patterns)

\* C2: whatever the flags, the pattern list preparePatterns produced holds every
\* pattern of the sibling list, and folding never fails the 'expect added
\* pattern' nor the 'missing package' assertion
C2_SiblingsAmongPreparedPatterns ==
  /\ pc = "preparePatternsForLinking" =>
       \A i \in 1..Len(Siblings) : Siblings[i] \in Range(patterns)
  /\ error.msg \notin {"expect added pattern", "missing package"}

\* C3: after folding completes on a non-root target whose own package resolves,
\* the chosen bucket of the target manifest maps every sibling's name to its
\* canonical version, and the name is in exactly one of the manifest's maps
C3_SiblingsInManifestBucket ==
  FoldCompleted =>
    \A i \in 1..Len(Siblings) :
      LET pkg    == getResolvedPattern(resolver, Siblings[i])
          bucket == dependencyTypeOf(pkg.name)
      IN  /\ bucket \in DOMAIN manifest.maps
          /\ pkg.name \in DOMAIN manifest.maps[bucket]
          /\ manifest.maps[bucket][pkg.name] = getPatternVersion(Siblings[i], pkg)
          /\ Cardinality({t \in DOMAIN manifest.maps :
                            pkg.name \in DOMAIN manifest.maps[t]}) = 1

\* C4 as stated: after folding completes on a non-root target whose own package
\* resolves, every sibling's pattern is exactly once in the backlink list
C4_EverySiblingOnceInBacklinks ==
  FoldCompleted =>
    \A i \in 1..Len(Siblings) :
      Count(manifest.reference.dependencies, Siblings[i]) = 1

\* the chosen bucket of the manifest m already maps the sibling's name to its
\* canonical version
AlreadyDeclared(m, pattern) ==
  LET pkg    == getResolvedPattern(resolver, pattern)
      bucket == dependencyTypeOf(pkg.name)
  IN  /\ bucket \in DOMAIN m.maps
      /\ pkg.name \in DOMAIN m.maps[bucket]
      /\ m.maps[bucket][pkg.name] = getPatternVersion(pattern, pkg)

\* C4: when folding completes on a non-root target whose own package resolves,
\* the backlink list is the list before the call followed by the pattern of
\* every sibling, in sibling order, that the chosen bucket did not already map
\* to its canonical version; the other siblings add nothing
C4_BacklinksAppendedUnlessDeclared ==
  [][ (pc = "preparePatternsForLinking" /\ pc' = "linked" /\ NonRootTarget
         /\ TargetResolved)
      => LET New(p) == ~AlreadyDeclared(manifest, p)
         IN  manifest'.reference.dependencies =
               manifest.reference.dependencies \o SelectSeq(Siblings, New) ]_vars

\* folding completed with one sibling skipped because the bucket already held it
\* (it is not in the backlink list) and another one appended once
C4_Witness ==
  /\ FoldCompleted
  /\ \E i, j \in 1..Len(Siblings) :
       /\ AlreadyDeclared(manifest, Siblings[i])
       /\ Count(manifest.reference.dependencies, Siblings[i]) = 0
       /\ Count(manifest.reference.dependencies, Siblings[j]) = 1

\* C5 as stated: with default flags the sibling patterns a@1.0.0, c@3.0.0 are
\* canonicalized to a@^1.0.0, c@^3.0.0
C5_CanonicalizedWithCaret ==
  (DefaultFlags /\ ScenarioABC /\ pc = "preparePatternsForLinking") =>
    patterns = rawPatterns \o << <<"a", "@", "^", "1", ".", "0", ".", "0">>,
                                 <<"c", "@", "^", "3", ".", "0", ".", "0">> >>

\* C5: with default flags preparePatterns appends every sibling pattern
\* name@version unchanged: a@1.0.0, c@3.0.0 stay a@1.0.0, c@3.0.0
C5_CanonicalizedUnchanged ==
  (DefaultFlags /\ pc = "preparePatternsForLinking") =>
    /\ patterns = rawPatterns \o Siblings
    /\ ScenarioABC =>
         patterns = rawPatterns \o << <<"a", "@", "1", ".", "0", ".", "0">>,
                                      <<"c", "@", "3", ".", "0", ".", "0">> >>

\* the scenario, canonicalized
C5_Witness ==
  /\ DefaultFlags /\ ScenarioABC /\ pc = "preparePatternsForLinking"
  /\ Siblings = << <<"a", "@", "1", ".", "0", ".", "0">>,
                   <<"c", "@", "3", ".", "0", ".", "0">> >>
  /\ Len(patterns) = Len(rawPatterns) + 2

\* the call was made with a non-exotic pattern whose range is a concrete version
\* that the resolved version satisfies
ConcreteRangeCall ==
  /\ call.done
  /\ ~getExoticResolver(call.pattern)
  /\ normalizePattern(call.pattern).hasVersion
  /\ semverValid(normalizePattern(call.pattern).range)
  /\ semverSatisfies(call.pkg.version, normalizePattern(call.pattern).range)

\* C6 as stated: for a concrete satisfied range the result is the resolved
\* version with no prefix, whatever the flags and options
C6_ConcreteRangeNoPrefix ==
  ConcreteRangeCall => call.result = call.pkg.version

\* C6: for a concrete satisfied range the result is the resolved version with
\* no prefix whatever exact, save-exact and save-prefix are when tilde is not
\* set, and "~" followed by the resolved version when tilde is set
C6_ConcreteRangeTildeOrNoPrefix ==
  ConcreteRangeCall =>
    call.result = (IF flags.tilde THEN <<"~">> ELSE <<>>) \o call.pkg.version

\* a concrete satisfied range under tilde: "~" and the resolved version
C6_Witness ==
  /\ ConcreteRangeCall
  /\ flags.tilde /\ config.savePrefix = <<"^">>
  /\ call.result = <<"~">> \o call.pkg.version

\* the prefix the flags and options select
PolicyPrefix ==
  IF flags.tilde THEN <<"~">>
  ELSE IF flags.exact \/ config.saveExact \/ config.savePrefix = <<>> THEN <<>>
  ELSE config.savePrefix

\* C7: an exotic pattern is returned unchanged; a non-exotic pattern with no
\* range gives the selected prefix followed by the resolved version; a
\* non-exotic pattern whose range is not a concrete version and is satisfied
\* by the resolved version gives that range
C7_VersionPolicy ==
  call.done =>
    LET np == normalizePattern(call.pattern)
    IN  /\ getExoticResolver(call.pattern) => call.result = call.pattern
        /\ (~getExoticResolver(call.pattern) /\ ~np.hasVersion)
             => call.result = PolicyPrefix \o call.pkg.version
        /\ (~getExoticResolver(call.pattern) /\ np.hasVersion
              /\ ~semverValid(np.range)
              /\ semverSatisfies(call.pkg.version, np.range))
             => call.result = np.range

\* a pattern with no range under an empty save-prefix: no prefix
C7_Witness ==
  /\ call.done
  /\ ~getExoticResolver(call.pattern)
  /\ ~normalizePattern(call.pattern).hasVersion
  /\ ~flags.tilde /\ ~flags.exact /\ ~config.saveExact /\ config.savePrefix = <<>>
  /\ call.result = call.pkg.version

\* discovery ended without a manifest at both locations
DiscoveryMissed ==
  /\ pc \notin {"run", "init", "setSiblingWorkspaces"}
  /\ error.at # "init"
  /\ ~scanRegistries(1).foundRegistry

\* C8: when no manifest is at both locations, discovery ends with an empty
\* sibling list that is set, nothing fails, prepareRequests returns the base
\* requests and preparePatterns returns its input
C8_DiscoveryMissIsNormalInstall ==
  DiscoveryMissed =>
    /\ siblingWorkspaces.defined
    /\ Siblings = <<>>
    /\ error = NoError
    /\ pc \notin {"Install.init", "prepareRequests"} => requests.prepared = requests.base
    /\ pc \in {"preparePatternsForLinking"} => patterns = rawPatterns

\* C9: discovery leaves exactly one pattern name@version for every workspace
\* other than the current one, in the order of the workspace set, never the
\* current workspace, whatever the current manifest declares
C9_SiblingsAreTheOtherWorkspaces ==
  siblingWorkspaces.defined =>
    LET ws == disk.workspaces
        W  == disk.name
    IN  /\ Len(Siblings) = Cardinality({k \in 1..Len(ws) : ws[k].name # W})
        /\ \A k \in 1..Len(ws) :
             ws[k].name # W => Count(Siblings, At(ws[k].name, ws[k].version)) = 1
        /\ \A i \in 1..Len(Siblings) : normalizePattern(Siblings[i]).name # W
        /\ \A i, j \in 1..Len(Siblings) :
             i < j => \E k, l \in 1..Len(ws) :
                        /\ k < l
                        /\ Siblings[i] = At(ws[k].name, ws[k].version)
                        /\ Siblings[j] = At(ws[l].name, ws[l].version)

\* discovery from a workspace of the set: a sibling the manifest does not
\* declare is in the list, a declared package that is no workspace is not
C9_Witness ==
  /\ siblingWorkspaces.defined
  /\ \E k \in 1..Len(disk.workspaces) : disk.workspaces[k].name = disk.name
  /\ \E i \in 1..Len(Siblings) :
       \A d \in 1..Len(disk.deps) :
         disk.deps[d].name # normalizePattern(Siblings[i]).name
  /\ \E d \in 1..Len(disk.deps) :
       /\ \A k \in 1..Len(disk.workspaces) : disk.workspaces[k].name # disk.deps[d].name
       /\ \A i \in 1..Len(Siblings) :
            normalizePattern(Siblings[i]).name # disk.deps[d].name
  /\ Len(Siblings) = 2

\* the current folder is the monorepo root
IsolatingRoot ==
  config.workspaceRootFolder # "" /\ config.cwd = config.workspaceRootFolder

\* C10: a run from the monorepo root fails in init with the usage error, and
\* nothing of discovery came before: no existence check, no manifest read, no
\* workspace resolution, no sibling list, and the installer's init is not called
C10_RootIsolationFailsFirst ==
  IsolatingRoot =>
    /\ pc \in {"run", "init", "failed"}
    /\ pc = "failed" => error = Err("MessageError", "init", "workspacesIsolateRootCheck")
    /\ Range(io) \cap {"fs.exists", "readJson", "normalizeManifest",
                       "resolveWorkspaces", "Install.init", "resolver.init"} = {}
    /\ ~siblingWorkspaces.defined

\* the run from the root has failed with only the lockfile read behind it
C10_Witness ==
  /\ IsolatingRoot
  /\ pc = "failed"
  /\ error.type = "MessageError"
  /\ io = <<"Lockfile.fromDirectory">>
  /\ disk.files # {}

\* C11: when the install target is the root (cwdIsRoot), preparePatternsForLinking
\* returns the patterns it was given and changes nothing else: the manifest's
\* dependency maps and backlink list, the resolver's pattern table and the
\* sibling list are as before, no resolver lookup is made, nothing is reported
C11_RootTargetKeepsEverything ==
  [][(pc = "preparePatternsForLinking" /\ flags.workspaceRootIsCwd)
       => /\ pc' = "linked"
          /\ patterns' = patterns
          /\ manifest' = manifest
          /\ resolver' = resolver
          /\ siblingWorkspaces' = siblingWorkspaces
          /\ io' = io
          /\ warnings' = warnings
          /\ error' = NoError]_vars

\* a root target whose own package resolves is linked with two siblings still
\* in the pattern list
C11_Witness ==
  /\ pc = "linked"
  /\ flags.workspaceRootIsCwd
  /\ TargetResolved
  /\ Len(Siblings) >= 2
  /\ \A i \in 1..Len(Siblings) : Siblings[i] \in Range(patterns)

\* C12: on a non-root target whose own name@version the strict lookup does not
\* find, preparePatternsForLinking reports the unknownPackage warning and returns
\* the patterns unmodified; no error propagates and the manifest's dependency
\* maps and backlink list are unchanged
C12_UnknownTargetWarnsAndKeeps ==
  [][(pc = "preparePatternsForLinking" /\ NonRootTarget /\ ~TargetResolved)
       => /\ pc' = "linked"
          /\ error' = NoError
          /\ warnings' = Append(warnings, "unknownPackage")
          /\ patterns' = patterns
          /\ manifest' = manifest
          /\ resolver' = resolver]_vars

\* the warning was given on a non-root target and the sibling patterns are still
\* in the pattern list
C12_Witness ==
  /\ pc = "linked"
  /\ NonRootTarget
  /\ ~TargetResolved
  /\ warnings = <<"unknownPackage">>
  /\ Len(Siblings) >= 1
  /\ \A i \in 1..Len(Siblings) : Siblings[i] \in Range(patterns)

\* C13: a second call of preparePatterns, after the first call canonicalized the
\* siblings, makes no further replacePattern call and completes without error,
\* under every setting of the flags
C13_SecondCallReplacesNothing ==
  [][(pc = "preparePatternsForLinking" /\ pc' # pc)
       => /\ pc' = "preparedAgain"
          /\ error' = NoError
          /\ resolver'.replaced = resolver.replaced]_vars

\* preparePatterns has run to its end
Canonicalized == pc = "preparePatternsForLinking" \/ FoldActed

\* the canonical pattern of the policy for a sibling pattern name@version when
\* the resolved package has that name and version
PolicyPattern(pattern) ==
  At(normalizePattern(pattern).name,
     (IF flags.tilde THEN <<"~">> ELSE <<>>) \o normalizePattern(pattern).range)

\* C14: preparePatterns calls replacePattern(provisional, canonical) for a sibling
\* exactly when its canonical pattern differs from the provisional one, in
\* sibling order; afterwards the lookups by the provisional and by the canonical
\* pattern both return the sibling's package, so the lookup by the provisional
\* pattern during folding never fails with 'missing package'
C14_ReplacedExactlyWhenDifferent ==
  /\ Canonicalized =>
       LET Differs(p) == PolicyPattern(p) # p
           differing  == SelectSeq(Siblings, Differs)
       IN  /\ resolver.replaced =
                [k \in 1..Len(differing) |-> <<differing[k], PolicyPattern(differing[k])>>]
           /\ \A i \in 1..Len(Siblings) :
                /\ hasResolvedPattern(resolver, Siblings[i])
                /\ hasResolvedPattern(resolver, PolicyPattern(Siblings[i]))
                /\ getResolvedPattern(resolver, Siblings[i])
                     = getResolvedPattern(resolver, PolicyPattern(Siblings[i]))
                /\ getResolvedPattern(resolver, Siblings[i]).name
                     = normalizePattern(Siblings[i]).name
  /\ pc = "failed" => error.msg # "missing package"

\* two siblings were replaced by their tilde patterns and folding found the first
\* by its provisional pattern
C14_Witness ==
  /\ flags.tilde
  /\ Len(resolver.replaced) >= 2
  /\ pc = "failed"
  /\ error.msg = "expect added pattern"
  /\ Len(io) >= 2
  /\ io[Len(io)] = "resolver.getResolvedPattern"

\* prepareRequests has returned
RequestsInjected ==
  \/ pc \in {"resolver.init", "preparePatterns", "preparePatternsForLinking", "linked"}
  \/ pc = "failed" /\ error.at \notin {"init", "prepareRequests"}

\* C15: prepareRequests returns the base requests in their original order
\* followed by exactly one request per sibling pattern, in discovery order, each
\* for the registry 'npm' and not optional; the base list it was given is not
\* modified
C15_BaseThenOneRequestPerSibling ==
  RequestsInjected =>
    /\ Len(requests.prepared) = Len(requests.base) + Len(Siblings)
    /\ \A i \in 1..Len(requests.base) : requests.prepared[i] = requests.base[i]
    /\ \A j \in 1..Len(Siblings) :
         requests.prepared[Len(requests.base) + j]
           = [pattern |-> Siblings[j], registry |-> "npm", optional |-> FALSE]
    /\ Len(requests.base) = Len(rawPatterns)
    /\ \A i \in 1..Len(requests.base) :
         /\ requests.base[i].pattern = rawPatterns[i]
         /\ requests.base[i].registry = "npm"

\* requests were injected after a base request for two siblings
C15_Witness ==
  /\ pc = "resolver.init"
  /\ Len(requests.base) >= 1
  /\ Len(Siblings) >= 2
  /\ Len(requests.prepared) >= 3

\* C16: a hook of the command fails only before discovery (the root-isolation
\* error of init) or after resolution (the assertions of canonicalization and
\* folding); no hook fails once siblings are discovered or while the requests
\* are injected, whatever discovery found
C16_HooksFailOnlyAtStartOrAfterResolved ==
  pc = "failed" =>
    error.at \in {"init", "preparePatterns", "preparePatternsForLinking",
                  "_iterateAddedPackages"}

\* the keys of the origin map recorded for a package name
KeysOf(pkgName) ==
  {k \in 1..Len(rootPatternsToOrigin) :
     normalizePattern(rootPatternsToOrigin[k].pattern).name = pkgName}

\* t may be the bucket of a sibling of that name
BucketAllowed(pkgName, t) ==
  IF KeysOf(pkgName) # {}
  THEN \E k \in KeysOf(pkgName) : rootPatternsToOrigin[k].origin = t
  ELSE t = flagToOrigin

\* C17: the bucket folding chooses for a sibling is the origin recorded in the
\* root pattern-origin map under a key of the sibling's name when there is such
\* a key (the origin of one of them when there are several) and flagToOrigin
\* otherwise; a key of another package name never selects it. The buckets a
\* completed fold has created are exactly the chosen ones
C17_BucketFromOwnOriginOrFlag ==
  [][(pc = "preparePatternsForLinking" /\ pc' = "linked"
        /\ NonRootTarget /\ TargetResolved)
       => \E f \in [1..Len(Siblings) -> DepTypes] :
            /\ \A i \in 1..Len(Siblings) :
                 BucketAllowed(normalizePattern(Siblings[i]).name, f[i])
            /\ DOMAIN manifest'.maps
                 = DOMAIN manifest.maps \cup {f[i] : i \in 1..Len(Siblings)}]_vars

\* two siblings were folded, the first under the origin of one of its two keys,
\* the second under flagToOrigin
C17_Witness ==
  /\ FoldCompleted
  /\ Len(Siblings) = 2
  /\ Cardinality(KeysOf(normalizePattern(Siblings[1]).name)) = 2
  /\ KeysOf(normalizePattern(Siblings[2]).name) = {}
  /\ flagToOrigin = "devDependencies"
  /\ manifest.reference.dependencies = Siblings
  /\ DOMAIN manifest.maps = {"dependencies", "devDependencies"}

\* C18: preparePatterns returns the patterns it was given, in their order,
\* followed by exactly one pattern pkgName@canonicalVersion per sibling, in
\* sibling order; the list it was given is not modified and the result is longer
\* than it by the number of siblings
C18_InputThenOneCanonicalPerSibling ==
  pc = "preparePatternsForLinking" =>
    /\ Len(patterns) = Len(rawPatterns) + Len(Siblings)
    /\ \A i \in 1..Len(rawPatterns) : patterns[i] = rawPatterns[i]
    /\ \A j \in 1..Len(Siblings) :
         patterns[Len(rawPatterns) + j]
           = At(getResolvedPattern(resolver, Siblings[j]).name,
                (IF flags.tilde THEN <<"~">> ELSE <<>>)
                  \o getResolvedPattern(resolver, Siblings[j]).version)
    /\ rawPatterns = [i \in 1..Len(requests.base) |-> requests.base[i].pattern]

\* a base pattern and two siblings were canonicalized with the tilde prefix
C18_Witness ==
  /\ pc = "preparePatternsForLinking"
  /\ flags.tilde
  /\ Len(rawPatterns) >= 1
  /\ Len(Siblings) >= 2
  /\ patterns[Len(patterns)] # Siblings[Len(Siblings)]

\* the step in which folding aborts because a sibling pattern is not in the list
FoldAborts ==
  /\ pc = "preparePatternsForLinking"
  /\ pc' = "failed"
  /\ error'.msg = "expect added pattern"

SiblingsResolvedAsNamed ==
  \A i \in 1..Len(Siblings) :
    /\ hasResolvedPattern(resolver, Siblings[i])
    /\ Siblings[i] = At(getResolvedPattern(resolver, Siblings[i]).name,
                        getResolvedPattern(resolver, Siblings[i]).version)

\* C20: when the tilde flag is not set and every sibling pattern name@version
\* resolved to a package of that name and version, then under every setting of
\* exact, save-exact and save-prefix the canonical patterns are the provisional
\* ones: replacePattern is never called, and the sibling list still names the
\* patterns that preparePatterns appended to the pattern list
C20_NoTildeNothingReplaced ==
  (~flags.tilde /\ SiblingsResolvedAsNamed) =>
    /\ resolver.replaced = <<>>
    /\ pc = "preparePatternsForLinking" =>
         /\ patterns = rawPatterns \o Siblings
         /\ \A i \in 1..Len(Siblings) : Siblings[i] \in Range(patterns)

\* two siblings were canonicalized under a configured tilde prefix, flags unset
C20_Witness ==
  /\ pc = "preparePatternsForLinking"
  /\ ~flags.tilde /\ ~flags.exact
  /\ config.savePrefix = <<"~">> /\ ~config.saveExact
  /\ Len(Siblings) >= 2
  /\ SiblingsResolvedAsNamed
  /\ Len(patterns) = Len(rawPatterns) + 2

====
